---- MODULE Spec2Model ----
(***************************************************************************)
(* Model of the DeviceControl component (src/unnamed/part_000): the React  *)
(* state of the component, the handlers it binds to the UI, the effect     *)
(* cleanup, and the completions the BLE manager delivers to them.          *)
(*                                                                         *)
(* An async handler runs synchronously up to its first await; the part     *)
(* after the await runs when the awaited promise settles.  Each call that  *)
(* is suspended at an await is a record in the bag `tasks`, carrying the   *)
(* values the call closed over when it was started.                        *)
(***************************************************************************)
EXTENDS Integers, Sequences, FiniteSets, Bags, TLC

\* ---------------------------------------------------------------- bounds
NumSync  == 2      \* peripherals advertising the name "SYNC" (ids 1..NumSync)
MaxTasks == 2      \* handler calls the user may have suspended at an await
MaxScans == 3      \* scans started in one run

\* ------------------------------------------------------------- constants
TargetName == "SYNC"

NoDevice == 0

\* the delay of the auto-stop, 5000 ms, in time units of one second
ScanTimeout == 5

SyncIds == 1..NumSync

\* the peripherals in radio range: PeripheralRef {id, name}
Peripherals ==
    {[id |-> i, name |-> TargetName] : i \in SyncIds}
      \cup {[id |-> NumSync + 1, name |-> "sync"],
            [id |-> NumSync + 2, name |-> "OTHER"]}

BLE_CONFIG ==
    [SERVICE_UUID              |-> "000000ff-0000-1000-8000-00805f9b34fb",
     WRITE_CHARACTERISTIC      |-> "0000ff03-0000-1000-8000-00805f9b34fb",
     READ_ANGLE_CHARACTERISTIC |-> "0000ff04-0000-1000-8000-00805f9b34fb"]

MOTOR_COMMANDS ==
    [FORWARD         |-> <<1, 3>>,
     REVERSE         |-> <<1, 1>>,
     STOP            |-> <<1, 0>>,
     START_BREATHING |-> <<1, 1, 1>>,
     STOP_BREATHING  |-> <<1, 0, 1>>]

CommandNames == DOMAIN MOTOR_COMMANDS

\* the texts of the Alert.alert calls
NoAlert          == "none"
AlertPermission  == "Bluetooth permissions are required to continue"
AlertConnected   == "Connected to device"
AlertConnectFail == "Failed to connect to device"
AlertDisconnected == "Device disconnected successfully"
AlertNoDevice    == "Please connect to a device first"
AlertSendFail    == "Failed to send command"
AlertToggleFail  == "Failed to toggle breathing mode"

VARIABLES
    mounted,          \* the component is mounted
    tornDownIn,       \* the session's state when the component was unmounted
    isScanning,       \* useState(false)
    connectedDevice,  \* useState(null): id of the Device object, NoDevice for null
    devices,          \* useState([]): sequence of PeripheralRef
    breathingMode,    \* useState(false)
    tasks,            \* bag of handler calls suspended at an await
    timers,           \* pending setTimeout callbacks, in firing order; each
                      \* holds the number of the scan that scheduled it and
                      \* the time units left until it is due
    adapterScan,      \* number of the scan whose listener the manager holds, 0 if none
    scanSession,      \* number of scans started so far
    link,             \* per peripheral id: "open" or "closed" (the adapter's link)
    seen,             \* ids with the target name delivered to the current
                      \* scan's listener, in order of first delivery
    last              \* the step that ran last: its name, peripheral, alert shown

vars == <<mounted, tornDownIn, isScanning, connectedDevice, devices,
          breathingMode, tasks, timers, adapterScan, scanSession, link, seen, last>>

\* ------------------------------------------------------------- helpers
Step(op, dev, alert) == [op |-> op, dev |-> dev, alert |-> alert]

\* a suspended call; for a call waiting for a characteristic write the
\* record also holds the arguments of the write
Task(op, pc, dev, cmd, cap) ==
    [op |-> op, pc |-> pc, dev |-> dev, cmd |-> cmd, cap |-> cap,
     service |-> "", characteristic |-> "", value |-> ""]

\* the base64 alphabet of Buffer.toString('base64')
Base64Alphabet ==
    <<"A", "B", "C", "D", "E", "F", "G", "H", "I", "J", "K", "L", "M",
      "N", "O", "P", "Q", "R", "S", "T", "U", "V", "W", "X", "Y", "Z",
      "a", "b", "c", "d", "e", "f", "g", "h", "i", "j", "k", "l", "m",
      "n", "o", "p", "q", "r", "s", "t", "u", "v", "w", "x", "y", "z",
      "0", "1", "2", "3", "4", "5", "6", "7", "8", "9", "+", "/">>

Base64Char(n) == Base64Alphabet[n + 1]

\* an encoder that leaves out the padding
RECURSIVE Base64Unpadded(_)
Base64Unpadded(bytes) ==
    IF Len(bytes) = 0 THEN ""
    ELSE IF Len(bytes) = 1
      THEN Base64Char(bytes[1] \div 4) \o Base64Char((bytes[1] % 4) * 16)
    ELSE IF Len(bytes) = 2
      THEN Base64Char(bytes[1] \div 4)
             \o Base64Char((bytes[1] % 4) * 16 + bytes[2] \div 16)
             \o Base64Char((bytes[2] % 16) * 4)
    ELSE Base64Char(bytes[1] \div 4)
           \o Base64Char((bytes[1] % 4) * 16 + bytes[2] \div 16)
           \o Base64Char((bytes[2] % 16) * 4 + bytes[3] \div 64)
           \o Base64Char(bytes[3] % 64)
           \o Base64Unpadded(SubSeq(bytes, 4, Len(bytes)))

\* Buffer.from(command).toString('base64')
RECURSIVE Base64(_)
Base64(bytes) ==
    IF Len(bytes) = 0 THEN ""
    ELSE IF Len(bytes) = 1
      THEN Base64Char(bytes[1] \div 4) \o Base64Char((bytes[1] % 4) * 16)
             \o "=="
    ELSE IF Len(bytes) = 2
      THEN Base64Char(bytes[1] \div 4)
             \o Base64Char((bytes[1] % 4) * 16 + bytes[2] \div 16)
             \o Base64Char((bytes[2] % 16) * 4)
             \o "="
    ELSE Base64Char(bytes[1] \div 4)
           \o Base64Char((bytes[1] % 4) * 16 + bytes[2] \div 16)
           \o Base64Char((bytes[2] % 16) * 4 + bytes[3] \div 64)
           \o Base64Char(bytes[3] % 64)
           \o Base64(SubSeq(bytes, 4, Len(bytes)))

\* a call suspended at writeCharacteristicWithResponseForService(...)
WriteTask(op, dev, cmd, cap) ==
    [Task(op, "write", dev, cmd, cap) EXCEPT
        !.service = BLE_CONFIG.SERVICE_UUID,
        !.characteristic = BLE_CONFIG.WRITE_CHARACTERISTIC,
        !.value = Base64(MOTOR_COMMANDS[cmd])]

Spawn(t) == tasks (+) SetToBag({t})
Finish(t) == tasks (-) SetToBag({t})

\* a state setter of an unmounted component does nothing
SetState(cur, new) == IF mounted THEN new ELSE cur

Ids(list) == [i \in 1..Len(list) |-> list[i].id]

Range(s) == {s[i] : i \in 1..Len(s)}

LinkOpen(d) == d \in DOMAIN link /\ link[d] = "open"

\* the user can start another handler call
CanPress == mounted /\ BagCardinality(tasks) < MaxTasks

\* -------------------------------------------------- the session's state
\* number of suspended calls of handler `op` waiting at `pc`
NumOf(b, op, pc) ==
    LET S == {t \in BagToSet(b) : t.op = op /\ t.pc = pc}
    IN  BagCardinality([t \in S |-> b[t]])

NumWrites(b) ==
    NumOf(b, "sendCommand", "write") + NumOf(b, "toggleBreathingMode", "write")

\* the Connection Session's state, read off the component
SessionState ==
    IF NumOf(tasks, "disconnectDevice", "cancel") > 0 THEN "Disconnecting"
    ELSE IF connectedDevice # NoDevice THEN "Ready"
    ELSE IF NumOf(tasks, "connectToDevice", "connect") > 0 THEN "Connecting"
    ELSE IF NumOf(tasks, "connectToDevice", "discover") > 0 THEN "Discovering"
    ELSE "Disconnected"

\* peripherals with a connect request or a discovery in flight, or a link open
Engaged ==
    {d \in SyncIds :
        \/ LinkOpen(d)
        \/ \E t \in BagToSet(tasks) : t.op = "connectToDevice" /\ t.dev = d}

Init ==
    /\ mounted = TRUE
    /\ tornDownIn = "mounted"
    /\ isScanning = FALSE
    /\ connectedDevice = NoDevice
    /\ devices = <<>>
    /\ breathingMode = FALSE
    /\ tasks = EmptyBag
    /\ timers = <<>>
    /\ adapterScan = 0
    /\ scanSession = 0
    /\ link = [d \in SyncIds |-> "closed"]
    /\ seen = <<>>
    /\ last = Step("init", NoDevice, NoAlert)

\* ------------------------------------------------------------ scanning
ScanTasks == {t \in BagToSet(tasks) : t.op = "startScan"}

NumScanTasks == BagCardinality([t \in ScanTasks |-> tasks[t]])

\* the Scan button (disabled while isScanning): startScan runs up to
\* `await requestPermissions()`, closing over the isScanning of this render
PressScan ==
    /\ CanPress
    /\ ~isScanning
    /\ scanSession + NumScanTasks < MaxScans
    /\ tasks' = Spawn(Task("startScan", "permission", NoDevice, "", isScanning))
    /\ last' = Step("startScan", NoDevice, NoAlert)
    /\ UNCHANGED <<mounted, tornDownIn, isScanning, connectedDevice, devices, breathingMode,
                   timers, adapterScan, scanSession, link, seen>>

\* a check that lets a refusal through
PermissionOkAlways(permissionGranted) == permissionGranted = permissionGranted

\* if (!permissionGranted)
PermissionOk(permissionGranted) == permissionGranted

\* a startScan that keeps the old list
ResetDevicesKeep(prev) == prev

\* setDevices([])
ResetDevices(prev) == <<>>

\* a startScan that schedules no auto-stop
ScheduleNone(ts, session) == ts

\* setTimeout(..., 5000)
Schedule(ts, session) == Append(ts, [session |-> session, left |-> ScanTimeout])

\* a timer callback that leaves the adapter scanning
StopDeviceScanNot(scan) == scan

\* manager.stopDeviceScan()
StopDeviceScan(scan) == 0

\* requestPermissions settles with `granted`; the rest of startScan runs
PermissionResult(t, granted) ==
    /\ t \in ScanTasks
    /\ tasks' = Finish(t)
    /\ IF ~PermissionOk(granted)
         THEN /\ last' = Step(IF granted THEN "permissionResult"
                                         ELSE "permissionDenied",
                              NoDevice, AlertPermission)
              /\ UNCHANGED <<isScanning, devices, timers, adapterScan,
                             scanSession, seen>>
         ELSE IF t.cap
           THEN /\ last' = Step(IF granted THEN "permissionResult"
                                           ELSE "permissionDenied",
                                NoDevice, NoAlert)
                /\ UNCHANGED <<isScanning, devices, timers, adapterScan,
                               scanSession, seen>>
           ELSE /\ isScanning' = SetState(isScanning, TRUE)
                /\ devices' = SetState(devices, ResetDevices(devices))
                /\ seen' = SetState(seen, <<>>)
                /\ scanSession' = scanSession + 1
                /\ adapterScan' = scanSession + 1
                /\ timers' = Schedule(timers, scanSession + 1)
                /\ last' = Step(IF granted THEN "permissionResult"
                                           ELSE "permissionDenied",
                                NoDevice, NoAlert)
    /\ UNCHANGED <<mounted, tornDownIn, connectedDevice, breathingMode, link>>

UpperCase(name) == IF name = "sync" THEN "SYNC" ELSE name

\* a comparison that ignores case
NameMatchesAnyCase(name) == UpperCase(name) = TargetName

\* device.name === 'SYNC'
NameMatches(name) == name = TargetName

\* an updater that does not look for the id
RegistryAddNoCheck(prevDevices, device) == Append(prevDevices, device)

\* the updater passed to setDevices
RegistryAdd(prevDevices, device) ==
    IF \A i \in 1..Len(prevDevices) : prevDevices[i].id # device.id
      THEN Append(prevDevices, device)
      ELSE prevDevices

FirstSeen(order, id) ==
    IF id \in Range(order) THEN order ELSE Append(order, id)

\* the scan listener is called with (null, device)
Advertisement(p) ==
    /\ adapterScan # 0
    /\ devices' = SetState(devices,
                     IF NameMatches(p.name) THEN RegistryAdd(devices, p)
                                            ELSE devices)
    /\ seen' = SetState(seen,
                     IF p.name = TargetName THEN FirstSeen(seen, p.id) ELSE seen)
    /\ last' = Step("advertisement", p.id, NoAlert)
    /\ UNCHANGED <<mounted, tornDownIn, isScanning, connectedDevice, breathingMode, tasks,
                   timers, adapterScan, scanSession, link>>

\* the scan listener is called with (error, null); the manager's scan has ended
ScanError ==
    /\ adapterScan # 0
    /\ adapterScan' = 0
    /\ isScanning' = SetState(isScanning, FALSE)
    /\ last' = Step("scanError", NoDevice, NoAlert)
    /\ UNCHANGED <<mounted, tornDownIn, connectedDevice, devices, breathingMode, tasks,
                   timers, scanSession, link, seen>>

\* a time unit passes; a timer that is due fires before more time passes
Tick ==
    /\ timers # <<>>
    /\ \A i \in 1..Len(timers) : timers[i].left > 0
    /\ timers' = [i \in 1..Len(timers) |->
                     [timers[i] EXCEPT !.left = timers[i].left - 1]]
    /\ last' = Step("tick", NoDevice, NoAlert)
    /\ UNCHANGED <<mounted, tornDownIn, isScanning, connectedDevice, devices,
                   breathingMode, tasks, adapterScan, scanSession, link, seen>>

\* the oldest setTimeout callback of startScan is due and fires
Timeout ==
    /\ timers # <<>>
    /\ Head(timers).left = 0
    /\ timers' = Tail(timers)
    /\ adapterScan' = StopDeviceScan(adapterScan)
    /\ isScanning' = SetState(isScanning, FALSE)
    /\ last' = Step("timeout", NoDevice, NoAlert)
    /\ UNCHANGED <<mounted, tornDownIn, connectedDevice, devices, breathingMode, tasks,
                   scanSession, link, seen>>

\* ---------------------------------------------------------- connection
\* the cleanup of the effect whose dependency is connectedDevice: it runs
\* with the connectedDevice of the render that installed it
EffectCleanup(old) ==
    IF old # NoDevice
      THEN SetToBag({Task("cleanup", "cancel", old, "", FALSE)})
      ELSE EmptyBag

\* a device row (disabled once connectedDevice is set): connectToDevice runs
\* up to `await device.connect()`
PressConnect(i) ==
    /\ CanPress
    /\ i \in 1..Len(devices)
    /\ connectedDevice = NoDevice
    /\ tasks' = Spawn(Task("connectToDevice", "connect", devices[i].id, "", FALSE))
    /\ last' = Step("connectToDevice", devices[i].id, NoAlert)
    /\ UNCHANGED <<mounted, tornDownIn, isScanning, connectedDevice, devices, breathingMode,
                   timers, adapterScan, scanSession, link, seen>>

\* device.connect() settles
ConnectDone(t, ok) ==
    /\ t \in BagToSet(tasks)
    /\ t.op = "connectToDevice" /\ t.pc = "connect"
    /\ IF ok
         THEN /\ link' = [link EXCEPT ![t.dev] = "open"]
              /\ tasks' = Finish(t) (+)
                   SetToBag({Task("connectToDevice", "discover", t.dev, "", FALSE)})
              /\ last' = Step("connectDone", t.dev, NoAlert)
         ELSE /\ tasks' = Finish(t)
              /\ last' = Step("connectDone", t.dev, AlertConnectFail)
              /\ UNCHANGED link
    /\ UNCHANGED <<mounted, tornDownIn, isScanning, connectedDevice, devices, breathingMode,
                   timers, adapterScan, scanSession, seen>>

\* discoverAllServicesAndCharacteristics() settles; it can only succeed on
\* an open link.  device.connect() resolved to a fresh Device object, so
\* setConnectedDevice always changes the effect's dependency and the cleanup
\* of the previous effect runs, also when the id is the same
DiscoverDone(t, ok) ==
    /\ t \in BagToSet(tasks)
    /\ t.op = "connectToDevice" /\ t.pc = "discover"
    /\ ok => LinkOpen(t.dev)
    /\ IF ok
         THEN /\ connectedDevice' = SetState(connectedDevice, t.dev)
              /\ tasks' = Finish(t) (+)
                   (IF mounted THEN EffectCleanup(connectedDevice) ELSE EmptyBag)
              /\ last' = Step("discoverDone", t.dev, AlertConnected)
         ELSE /\ tasks' = Finish(t)
              /\ last' = Step("discoverDone", t.dev, AlertConnectFail)
              /\ UNCHANGED connectedDevice
    /\ UNCHANGED <<mounted, tornDownIn, isScanning, devices, breathingMode, timers,
                   adapterScan, scanSession, link, seen>>

\* the Disconnect button (rendered only while connectedDevice is set):
\* disconnectDevice runs up to `await connectedDevice.cancelConnection()`
PressDisconnect ==
    /\ CanPress
    /\ connectedDevice # NoDevice
    /\ tasks' = Spawn(Task("disconnectDevice", "cancel", connectedDevice, "", FALSE))
    /\ last' = Step("disconnectDevice", connectedDevice, NoAlert)
    /\ UNCHANGED <<mounted, tornDownIn, isScanning, connectedDevice, devices, breathingMode,
                   timers, adapterScan, scanSession, link, seen>>

\* cancelConnection() of disconnectDevice settles; a rejection leaves the
\* handler through the await
CancelDone(t, ok) ==
    /\ t \in BagToSet(tasks)
    /\ t.op = "disconnectDevice"
    /\ IF ok
         THEN /\ link' = [link EXCEPT ![t.dev] = "closed"]
              /\ connectedDevice' = SetState(connectedDevice, NoDevice)
              /\ tasks' = Finish(t) (+)
                   (IF mounted THEN EffectCleanup(connectedDevice) ELSE EmptyBag)
              /\ last' = Step("cancelDone", t.dev, AlertDisconnected)
         ELSE /\ tasks' = Finish(t)
              /\ last' = Step("cancelDone", t.dev, NoAlert)
              /\ UNCHANGED <<link, connectedDevice>>
    /\ UNCHANGED <<mounted, tornDownIn, isScanning, devices, breathingMode, timers,
                   adapterScan, scanSession, seen>>

\* cancelConnection() called by the effect cleanup settles; nobody awaits it
CleanupCancelDone(t, ok) ==
    /\ t \in BagToSet(tasks)
    /\ t.op = "cleanup"
    /\ tasks' = Finish(t)
    /\ link' = IF ok THEN [link EXCEPT ![t.dev] = "closed"] ELSE link
    /\ last' = Step("cleanupCancelDone", t.dev, NoAlert)
    /\ UNCHANGED <<mounted, tornDownIn, isScanning, connectedDevice, devices, breathingMode,
                   timers, adapterScan, scanSession, seen>>

\* the component is unmounted: the effect cleanup runs a last time
Unmount ==
    /\ mounted
    /\ mounted' = FALSE
    /\ tornDownIn' = SessionState
    /\ tasks' = tasks (+) EffectCleanup(connectedDevice)
    /\ last' = Step("unmount", connectedDevice, NoAlert)
    /\ UNCHANGED <<isScanning, connectedDevice, devices, breathingMode, timers,
                   adapterScan, scanSession, link, seen>>

\* ------------------------------------------------------------ commands
\* a check that takes null for a device
HasDeviceAlways(cd) == cd = cd

\* if (!connectedDevice)
HasDevice(cd) == cd # NoDevice

\* sendCommand(command) up to the await of the write, or to its early return
SendCommand(cmd) ==
    /\ CanPress
    /\ cmd \in CommandNames
    /\ IF ~HasDevice(connectedDevice)
         THEN /\ last' = Step("sendCommand", NoDevice, AlertNoDevice)
              /\ UNCHANGED tasks
         ELSE /\ tasks' = Spawn(WriteTask("sendCommand", connectedDevice,
                                          cmd, FALSE))
              /\ last' = Step("sendCommand", connectedDevice, NoAlert)
    /\ UNCHANGED <<mounted, tornDownIn, isScanning, connectedDevice, devices, breathingMode,
                   timers, adapterScan, scanSession, link, seen>>

\* the Breathing button: toggleBreathingMode calls sendCommand and awaits it;
\* without a device sendCommand returns at once and the toggle goes on in
\* the same turn of the event loop
PressToggle ==
    /\ CanPress
    /\ LET cmd == IF breathingMode THEN "STOP_BREATHING" ELSE "START_BREATHING"
       IN IF ~HasDevice(connectedDevice)
            THEN /\ breathingMode' = ~breathingMode
                 /\ last' = Step("toggleBreathingMode", NoDevice, AlertNoDevice)
                 /\ UNCHANGED tasks
            ELSE /\ tasks' = Spawn(WriteTask("toggleBreathingMode",
                                             connectedDevice, cmd, breathingMode))
                 /\ last' = Step("toggleBreathingMode", connectedDevice, NoAlert)
                 /\ UNCHANGED breathingMode
    /\ UNCHANGED <<mounted, tornDownIn, isScanning, connectedDevice, devices, timers,
                   adapterScan, scanSession, link, seen>>

\* writeCharacteristicWithResponseForService() settles (acknowledged only on
\* an open link); sendCommand catches a rejection and returns normally, then
\* a toggle that awaited it sets breathingMode from the value it closed over
WriteDone(t, ok) ==
    /\ t \in BagToSet(tasks)
    /\ t.pc = "write"
    /\ ok => LinkOpen(t.dev)
    /\ tasks' = Finish(t)
    /\ last' = Step("writeDone", t.dev, IF ok THEN NoAlert ELSE AlertSendFail)
    /\ breathingMode' = IF t.op = "toggleBreathingMode"
                          THEN SetState(breathingMode, ~t.cap)
                          ELSE breathingMode
    /\ UNCHANGED <<mounted, tornDownIn, isScanning, connectedDevice, devices, timers,
                   adapterScan, scanSession, link, seen>>

\* ------------------------------------------------------- specification
Next ==
    \/ PressScan
    \/ \E t \in BagToSet(tasks), granted \in BOOLEAN : PermissionResult(t, granted)
    \/ \E p \in Peripherals : Advertisement(p)
    \/ ScanError
    \/ Tick
    \/ Timeout
    \/ \E i \in 1..Len(devices) : PressConnect(i)
    \/ \E t \in BagToSet(tasks), ok \in BOOLEAN : ConnectDone(t, ok)
    \/ \E t \in BagToSet(tasks), ok \in BOOLEAN : DiscoverDone(t, ok)
    \/ PressDisconnect
    \/ \E t \in BagToSet(tasks), ok \in BOOLEAN : CancelDone(t, ok)
    \/ \E t \in BagToSet(tasks), ok \in BOOLEAN : CleanupCancelDone(t, ok)
    \/ Unmount
    \/ \E cmd \in CommandNames : SendCommand(cmd)
    \/ PressToggle
    \/ \E t \in BagToSet(tasks), ok \in BOOLEAN : WriteDone(t, ok)

Spec == Init /\ [][Next]_vars

\* The scan handlers touch isScanning, devices, timers, adapterScan,
\* scanSession, seen and their own tasks; the connection and command handlers
\* touch connectedDevice, breathingMode, link and their own tasks, and read
\* of the scan's state only the rows of `devices`.  The two halves are
\* explored separately, each with the unmount.

ScanNext ==
    \/ PressScan
    \/ \E t \in BagToSet(tasks), granted \in BOOLEAN : PermissionResult(t, granted)
    \/ \E p \in Peripherals : Advertisement(p)
    \/ ScanError
    \/ Tick
    \/ Timeout
    \/ Unmount

ScanSpec == Init /\ [][ScanNext]_vars

\* time passes, and the event loop runs a timer callback that is due
ScanLiveSpec == ScanSpec /\ WF_vars(Tick) /\ WF_vars(Timeout)

\* the state after a first scan has listed every "SYNC" peripheral and has
\* been ended by its timer
ConnInit ==
    /\ mounted = TRUE
    /\ tornDownIn = "mounted"
    /\ isScanning = FALSE
    /\ connectedDevice = NoDevice
    /\ devices = [i \in SyncIds |-> [id |-> i, name |-> TargetName]]
    /\ breathingMode = FALSE
    /\ tasks = EmptyBag
    /\ timers = <<>>
    /\ adapterScan = 0
    /\ scanSession = 1
    /\ link = [d \in SyncIds |-> "closed"]
    /\ seen = [i \in SyncIds |-> i]
    /\ last = Step("timeout", NoDevice, NoAlert)

ConnNext ==
    \/ \E i \in 1..Len(devices) : PressConnect(i)
    \/ \E t \in BagToSet(tasks), ok \in BOOLEAN : ConnectDone(t, ok)
    \/ \E t \in BagToSet(tasks), ok \in BOOLEAN : DiscoverDone(t, ok)
    \/ PressDisconnect
    \/ \E t \in BagToSet(tasks), ok \in BOOLEAN : CancelDone(t, ok)
    \/ \E t \in BagToSet(tasks), ok \in BOOLEAN : CleanupCancelDone(t, ok)
    \/ Unmount
    \/ \E cmd \in CommandNames : SendCommand(cmd)
    \/ PressToggle
    \/ \E t \in BagToSet(tasks), ok \in BOOLEAN : WriteDone(t, ok)

ConnSpec == ConnInit /\ [][ConnNext]_vars

TypeOK ==
    /\ mounted \in BOOLEAN
    /\ isScanning \in BOOLEAN
    /\ connectedDevice \in SyncIds \cup {NoDevice}
    /\ \A i \in 1..Len(devices) : devices[i] \in Peripherals
    /\ breathingMode \in BOOLEAN
    /\ adapterScan \in 0..MaxScans
    /\ \A i \in 1..Len(timers) :
          timers[i].session \in 1..MaxScans /\ timers[i].left \in 0..ScanTimeout
    /\ scanSession \in 0..MaxScans
    /\ \A d \in SyncIds : link[d] \in {"open", "closed"}

\* ---------------------------------------------------------------- claims

\* C1: a step that reports a failed send (the write was rejected, or no
\* device is connected) leaves breathingMode as it was.
C1_FlipOnlyOnSuccess ==
    [][last'.alert \in {AlertNoDevice, AlertSendFail}
         => breathingMode' = breathingMode]_vars

\* C2: at most one peripheral has a connect request in flight or a link open.
C2_AtMostOneConnection == Cardinality(Engaged) <= 1

\* C3: a connectToDevice call made while the session is not Disconnected
\* issues no connect request to the adapter.
C3_ConnectRejected ==
    [][(last'.op = "connectToDevice" /\ SessionState # "Disconnected")
         => NumOf(tasks', "connectToDevice", "connect")
              = NumOf(tasks, "connectToDevice", "connect")]_vars

\* C4: when the cancel request of disconnectDevice has been answered, with
\* success or with an error, the session is Disconnected.
C4_DisconnectAlwaysEnds ==
    [][(last'.op = "cancelDone" /\ mounted)
         => connectedDevice' = NoDevice]_vars

\* C5: when the component was unmounted with the session not Disconnected,
\* then once every adapter request has been answered no link is open.
C5_TeardownReleases ==
    (/\ ~mounted
     /\ tornDownIn # "Disconnected"
     /\ tasks = EmptyBag) => \A d \in SyncIds : ~LinkOpen(d)

\* C6: a startScan call that goes on after its permission await while a scan
\* is in progress clears no list, starts no adapter scan and schedules no timer.
C6_SecondStartNoOp ==
    [][(last'.op = "permissionResult" /\ mounted /\ isScanning)
         => /\ devices' = devices
            /\ adapterScan' = adapterScan
            /\ scanSession' = scanSession
            /\ timers' = timers]_vars

\* C7: when the scan is Idle no auto-stop is pending, and an auto-stop that
\* fires during a scan was scheduled by that scan.
C7_TimerCancelled ==
    [][mounted =>
         /\ ~isScanning' => timers' = <<>>
         /\ (last'.op = "timeout" /\ isScanning)
              => Head(timers).session = scanSession]_vars

\* C8: the list has no two entries with the same id, and its ids are the ids
\* of the target-named peripherals advertised in this scan, in the order in
\* which they were first advertised.
C8_UniqueFirstSeen ==
    mounted =>
      /\ \A i, j \in 1..Len(devices) : i # j => devices[i].id # devices[j].id
      /\ Ids(devices) = seen

C8_Witness ==
    /\ mounted
    /\ Len(devices) >= 2
    /\ last.op = "advertisement"
    /\ last.dev = devices[1].id

\* C9: every entry of the list is named exactly "SYNC", and an advertisement
\* with another name leaves the list unchanged.
C9_ExactName ==
    [][/\ \A i \in 1..Len(devices') : devices'[i].name = "SYNC"
       /\ (/\ last'.op = "advertisement"
           /\ \E p \in Peripherals : p.id = last'.dev /\ p.name # "SYNC")
            => devices' = devices]_vars

C9_Witness ==
    /\ mounted
    /\ Len(devices) >= 1
    /\ last.op = "advertisement"
    /\ \E p \in Peripherals : p.id = last.dev /\ p.name = "sync"

\* C10: a send made while the session is Connecting or Discovering reports
\* "Please connect to a device first" and issues no write.
C10_SendBeforeReady ==
    [][(/\ last'.op \in {"sendCommand", "toggleBreathingMode"}
        /\ SessionState \in {"Connecting", "Discovering"})
         => /\ last'.alert = AlertNoDevice
            /\ NumWrites(tasks') = NumWrites(tasks)]_vars

C10_Witness ==
    /\ last.op \in {"sendCommand", "toggleBreathingMode"}
    /\ last.alert = AlertNoDevice
    /\ SessionState \in {"Connecting", "Discovering"}

\* C12: a startScan call whose permission request is refused shows the
\* permission alert and changes neither isScanning nor the list, starts no
\* adapter scan and schedules no timer.
C12_DeniedNeverScans ==
    [][last'.op = "permissionDenied"
         => /\ last'.alert = AlertPermission
            /\ isScanning' = isScanning
            /\ devices' = devices
            /\ adapterScan' = adapterScan
            /\ scanSession' = scanSession
            /\ timers' = timers]_vars

C12_Witness ==
    /\ mounted
    /\ last.op = "permissionDenied"
    /\ ~isScanning
    /\ adapterScan = 0
    /\ timers = <<>>

\* C13: a scan error sets the controller Idle, ends the adapter scan and is
\* reported to the user.
C13_RadioErrorTerminal ==
    [][(mounted /\ last'.op = "scanError")
         => /\ ~isScanning'
            /\ adapterScan' = 0
            /\ last'.alert # NoAlert]_vars

\* C14: while the adapter scans, the auto-stop of that scan is pending, and
\* every scan is followed by a state in which the adapter scan has stopped
\* and the scanning flag is clear.
C14_AutoStop ==
    /\ [](adapterScan # 0
            => \E i \in 1..Len(timers) :
                  timers[i].session = adapterScan /\ timers[i].left <= 5)
    /\ (adapterScan # 0 \/ (mounted /\ isScanning))
          ~> (adapterScan = 0 /\ (mounted => ~isScanning))

C14_Witness ==
    /\ mounted
    /\ last.op = "timeout"
    /\ ~isScanning
    /\ adapterScan = 0
    /\ timers = <<>>

\* C17: the step that starts a scan leaves the list empty, and every entry of
\* the list was advertised to the listener of the current scan.
C17_StartDiscards ==
    [][mounted =>
         /\ scanSession' # scanSession => (devices' = <<>> /\ isScanning')
         /\ \A i \in 1..Len(devices') : devices'[i].id \in Range(seen')]_vars

C17_Witness ==
    /\ mounted
    /\ scanSession >= 2
    /\ last.op = "permissionResult"
    /\ isScanning
    /\ devices = <<>>

C11_FailureResets ==
    [][(/\ mounted
        /\ last'.op \in {"connectDone", "discoverDone"}
        /\ last'.alert = AlertConnectFail)
         => /\ SessionState' = "Disconnected"
            /\ link'[last'.dev] = "closed"]_vars

\* C15: the adapter never has two writes outstanding, nor a write together
\* with a connect or discovery request.
C15_Serialized ==
    /\ NumWrites(tasks) <= 1
    /\ NumWrites(tasks) = 0
         \/ NumOf(tasks, "connectToDevice", "connect")
              + NumOf(tasks, "connectToDevice", "discover") = 0

\* C16: a send made in Ready adds exactly one write request, for the
\* connected device, to service 000000ff / characteristic 0000ff03, with the
\* base64 text of the command's bytes; the call stays suspended until the
\* adapter has answered the write.
C16_SendWrites ==
    [][/\ (/\ last'.op \in {"sendCommand", "toggleBreathingMode"}
           /\ SessionState = "Ready")
            => \E t \in BagToSet(tasks') :
                  /\ tasks' = tasks (+) SetToBag({t})
                  /\ t.op = last'.op /\ t.pc = "write"
                  /\ t.dev = connectedDevice
                  /\ t.service = "000000ff-0000-1000-8000-00805f9b34fb"
                  /\ t.characteristic = "0000ff03-0000-1000-8000-00805f9b34fb"
                  /\ t.value = [FORWARD         |-> "AQM=",
                                REVERSE         |-> "AQE=",
                                STOP            |-> "AQA=",
                                START_BREATHING |-> "AQEB",
                                STOP_BREATHING  |-> "AQAB"][t.cmd]
                  /\ last'.op = "toggleBreathingMode"
                       => t.cmd = IF breathingMode THEN "STOP_BREATHING"
                                                   ELSE "START_BREATHING"
       /\ NumWrites(tasks') < NumWrites(tasks) => last'.op = "writeDone"]_vars

C16_Witness ==
    /\ mounted
    /\ SessionState = "Ready"
    /\ last.op = "writeDone" /\ last.alert = NoAlert
    /\ \E t \in BagToSet(tasks) :
          t.op = "sendCommand" /\ t.cmd = "FORWARD" /\ t.value = "AQM="

\* C19: a send made while the cancel request of disconnectDevice is in flight
\* reports "Please connect to a device first" and issues no write.
C19_SendWhileDisconnecting ==
    [][(/\ last'.op \in {"sendCommand", "toggleBreathingMode"}
        /\ SessionState = "Disconnecting")
         => /\ last'.alert = AlertNoDevice
            /\ NumWrites(tasks') = NumWrites(tasks)]_vars

\* C20: with connectedDevice null and no connect, discovery or cancel
\* pending, no link is open.
C20_NoOrphanLink ==
    (/\ mounted
     /\ connectedDevice = NoDevice
     /\ \A t \in BagToSet(tasks) :
           t.op \notin {"connectToDevice", "disconnectDevice", "cleanup"})
      => \A d \in SyncIds : ~LinkOpen(d)

====
